---- MODULE Spec2Model ----
(***************************************************************************)
(* The PKCE authorization flow of pyspot: SpotifyOAuthClient.__init__,     *)
(* the redirect handler OAuthCallbackHandler, the Token record and the     *)
(* code verifier generator.                                                *)
(*                                                                         *)
(* Text is modelled as a sequence of tokens: the separators "?", "&" and   *)
(* "=" and words that hold none of them, so that str.split is computed.    *)
(* An optional value (a Python attribute that may be unset, a value that   *)
(* may be None) is a sequence of length 0 or 1.                            *)
(***************************************************************************)
EXTENDS Integers, Sequences, FiniteSets, TLC

VARIABLES
    \* ---- SpotifyOAuthClient.__init__ (authentication.py 198-209)
    pc,                 \* the statement the flow is at
    code_verifier,      \* local of __init__, line 198
    code_challenge,     \* local of __init__, line 199
    authorization_url,  \* what create_authorization_url returned, line 201
    browser,            \* the URLs webbrowser.open was called with, in order
    server,             \* "unbound" | "bound"
    clock,              \* seconds since the flow started
    request,            \* <<>> or <<path>>: the one request handle_request took
    caller,             \* how the constructor call ended for its caller
    delivered,          \* <<>> or <<Token>>: the Token the caller can reach
    \* ---- OAuthCallbackHandler (authentication.py 115-151)
    response,           \* <<>> or <<status>>: what was sent to the browser
    exchange,           \* the fetch_token calls made: records [code, code_verifier]
    token,              \* <<>> or <<Token>>: the handler's self.token
    raised,             \* the exception that left the handler, "none" if none
    stderr,             \* tracebacks socketserver's handle_error printed
    \* ---- the environment
    portFree,           \* whether localhost:8888 can be bound
    endpoint,           \* how the token endpoint answers an exchange
    g_client,           \* module-global name `client`: <<>> unbound, else <<c>>
    g_code_verifier,    \* module-global name `code_verifier`
    \* ---- Token (authentication.py 46-112)
    issuedAt,           \* tick at which the token endpoint issued the token
    now,                \* DateTime.now(), in ticks
    tok,                \* <<>> or <<Token>>: the Token under observation
    observed,           \* the readings of Token.expired: records [at, expired]
    \* ---- generate_code_verifier (utils.py 256-274)
    length,             \* the argument
    chosen,             \* the characters random.choices has drawn so far
    verifier            \* <<>> or <<string>>: the value returned

flowVars    == <<pc, code_verifier, code_challenge, authorization_url, browser,
                 server, clock, request, caller, delivered>>
handlerVars == <<response, exchange, token, raised, stderr>>
envVars     == <<portFree, endpoint, g_client, g_code_verifier>>
tokenVars   == <<issuedAt, now, tok, observed>>
pkceVars    == <<length, chosen, verifier>>
vars        == <<flowVars, handlerVars, envVars, tokenVars, pkceVars>>

----------------------------------------------------------------------------
(* Bounds of the model *)

\* seconds the model lets pass while the listener waits
MaxClock == 4
\* the timeout N a bounded wait for the redirect would be given, in seconds
TimeoutN == 2

----------------------------------------------------------------------------
(* Text *)

Q   == "?"
AMP == "&"
EQ  == "="

\* str.split(sep): the pieces between the occurrences of sep; "" gives [""]
RECURSIVE SplitFrom(_, _, _, _)
SplitFrom(s, sep, i, cur) ==
    IF i > Len(s) THEN <<cur>>
    ELSE IF s[i] = sep THEN <<cur>> \o SplitFrom(s, sep, i + 1, <<>>)
    ELSE SplitFrom(s, sep, i + 1, Append(cur, s[i]))

Split(s, sep) == SplitFrom(s, sep, 1, <<>>)

\* seq[-1]
Last(s) == s[Len(s)]

----------------------------------------------------------------------------
(* The values the flow and its environment draw from *)

\* what random.choices can return for the default length, as opaque values
Verifiers == {"v1", "v2"}

\* SHA-256 then URL-safe base64 without padding: deterministic, and distinct
\* verifiers give distinct challenges
generate_code_challenge(v) == <<"S256", v>>

\* the state values create_authorization_url can generate
States == {"s1", "s2"}

\* the authorization codes the authorization server can issue
Codes == {"c1", "c2"}

Callback == "/callback"

\* the request lines a client of localhost:8888 can send
Paths ==
    { <<Callback, Q, "code", EQ, c, AMP, "state", EQ, s>> : c \in Codes, s \in States }
    \cup
    { <<Callback, Q, "code", EQ, "c1">>,                        \* no state
      <<Callback, Q, "error", EQ, "access_denied", AMP, "state", EQ, "s1">>,
      <<Callback, Q, "error", EQ, "access_denied">>,
      <<Callback, Q, "code", EQ, "c1", AMP, "error", EQ, "access_denied">>,
      <<Callback>>,                                             \* no query string
      <<Callback, Q>>,                                          \* empty query
      <<Callback, Q, "foo", EQ, "bar">>,                        \* neither
      <<Callback, Q, "code", EQ, AMP, "state", EQ, "s1">>,      \* code=
      <<Callback, Q, "code", EQ, "c1", EQ, EQ>>,                \* padded value
      <<"/favicon.ico">> }

\* how the token endpoint can answer the POST of an exchange
Endpoints == {"token", "other_token_type", "error_4xx", "error_5xx", "not_json"}

----------------------------------------------------------------------------
(* Token *)

\* ticks of DateTime.now() in one second of a Unix timestamp
TicksPerSecond == 2

\* pendulum.from_timestamp: the instant of a Unix timestamp in seconds
from_timestamp(v) == v * TicksPerSecond

\* the field validator of expires_at: an int becomes a DateTime, anything
\* else falls off the end of the function and becomes None. A JSON value is
\* a record [isint, value].
set_expires_at_from_timestamp(v) ==
    IF v.isint THEN <<from_timestamp(v.value)>> ELSE <<>>

\* Token(**token_json): <<>> stands for pydantic's ValidationError.
\* token_type is Literal["Bearer"]; expires_at must validate as a DateTime,
\* which the None the validator returns for a non-int does not.
Token(token_json) ==
    LET at == set_expires_at_from_timestamp(token_json.expires_at) IN
    IF token_json.token_type = "Bearer" /\ at # <<>>
    THEN << [ access_token |-> token_json.access_token,
              token_type   |-> token_json.token_type,
              expires_in   |-> token_json.expires_in,
              expires_at   |-> at[1] ] >>
    ELSE <<>>

ExpiredAtOrAfter(t, at) == t.expires_at <= at

\* Token.expired: self.expires_at < DateTime.now()
Expired(t, at) == t.expires_at < at

\* the JSON the OAuth2 client hands back for a token issued at tick `at`:
\* the endpoint's fields plus expires_at = int(time.time()) + expires_in
TokenJson(code, ttype, expires_in, at) ==
    [ access_token |-> <<"access", code>>,
      token_type   |-> ttype,
      expires_in   |-> expires_in,
      expires_at   |-> [ isint |-> TRUE,
                        value |-> (at \div TicksPerSecond) + expires_in ] ]

----------------------------------------------------------------------------
(* OAuthCallbackHandler *)

\* do_GET lines 130-131, before dict(): the last "?"-piece of the path split
\* at "&", each piece split at "="
QueryPairs(path) ==
    LET query == Last(Split(path, Q))
        segs  == Split(query, AMP)
    IN  [i \in 1..Len(segs) |-> Split(segs[i], EQ)]

\* dict(...) takes only pairs: any other length is a ValueError
DictOk(pairs) == \A i \in 1..Len(pairs) : Len(pairs[i]) = 2

\* params.get(key) on the dict built from the pairs (a later pair overwrites
\* an earlier one with the same key): <<>> is None
ParamsGet(pairs, key) ==
    LET idx == {i \in 1..Len(pairs) : pairs[i][1] = <<key>>} IN
    IF idx = {} THEN <<>>
    ELSE <<pairs[CHOOSE i \in idx : \A j \in idx : j <= i][2]>>

\* the lifetime the token endpoint grants, in seconds
GrantedLifetime == {3600}

NoOutcome == [raised |-> "none", exchange |-> {}, token |-> <<>>, response |-> <<>>]

\* client.fetch_token(TOKEN_URL, code=code, code_verifier=code_verifier) and
\* Token(**token_json), lines 136-139, once the two names resolved: the POST
\* is made, and the OAuth2 client raises on an error answer
FetchAndParse(code, at) ==
    LET sent == { [code |-> code, code_verifier |-> g_code_verifier[1]] }
        made == [NoOutcome EXCEPT !.exchange = sent]
    IN  CASE endpoint = "error_4xx" -> [made EXCEPT !.raised = "OAuthError"]
          [] endpoint = "error_5xx" -> [made EXCEPT !.raised = "HTTPStatusError"]
          [] endpoint = "not_json"  -> [made EXCEPT !.raised = "JSONDecodeError"]
          [] OTHER ->
                LET ttype == IF endpoint = "token" THEN "Bearer" ELSE "mac"
                    e     == CHOOSE x \in GrantedLifetime : TRUE
                    t     == Token(TokenJson(code, ttype, e, at))
                IN  IF t = <<>>
                    THEN [made EXCEPT !.raised = "ValidationError"]
                    ELSE [made EXCEPT !.token = t, !.response = <<200>>]

\* do_GET, lines 128-148, for the request line `path` handled at tick `at`.
\* `client` and `code_verifier` are free names of the method: Python looks
\* them up in the module namespace when line 136 runs, and raises NameError
\* for one that is unbound.
do_GET(path, at) ==
    LET pairs == QueryPairs(path) IN
    IF ~DictOk(pairs) THEN [NoOutcome EXCEPT !.raised = "ValueError"]
    ELSE
        LET code == ParamsGet(pairs, "code") IN
        IF code # <<>> /\ code[1] # <<>>                       \* if code:
        THEN IF g_client = <<>> \/ g_code_verifier = <<>>
             THEN [NoOutcome EXCEPT !.raised = "NameError"]
             ELSE FetchAndParse(code[1], at)
        ELSE [NoOutcome EXCEPT !.response = <<200>>]

\* the parameters OAuthCallbackHandler.__init__ declares after self
HandlerParameters == <<"client", "code_verifier", "request", "client_address", "server">>

\* what the server passes to the class registered at line 207:
\* RequestHandlerClass(request, client_address, self)
RequestHandlerClassArguments == <<"request", "client_address", "server">>

\* binding positional arguments to required parameters
BindArguments(params, args) ==
    IF Len(args) = Len(params) THEN "bound" ELSE "TypeError"

----------------------------------------------------------------------------
(* SpotifyOAuthClient.__init__ *)

TokenIdle == /\ issuedAt = 0 /\ now = 0 /\ tok = <<>> /\ observed = <<>>
PkceIdle  == /\ length = 0 /\ chosen = <<>> /\ verifier = <<>>

HandlerIdle ==
    /\ response = <<>> /\ exchange = {} /\ token = <<>>
    /\ raised = "none" /\ stderr = <<>>

\* the module namespace of authentication.py: it binds neither `client` nor
\* `code_verifier` (lines 21-43 bind the configuration names only)
ModuleNamespace == /\ g_client = <<>> /\ g_code_verifier = <<>>

\* a caller evaluates SpotifyOAuthClient(client_id, client_secret, ...)
Init ==
    /\ pc = "generate_code_verifier"
    /\ code_verifier = "unset" /\ code_challenge = <<>>
    /\ authorization_url = <<>> /\ browser = <<>>
    /\ server = "unbound" /\ clock = 0 /\ request = <<>>
    /\ caller = "constructing" /\ delivered = <<>>
    /\ HandlerIdle
    /\ portFree \in BOOLEAN
    /\ endpoint \in Endpoints
    /\ ModuleNamespace
    /\ TokenIdle /\ PkceIdle

\* line 198: code_verifier = self.generate_code_verifier()
GenerateCodeVerifier ==
    /\ pc = "generate_code_verifier"
    /\ \E v \in Verifiers : code_verifier' = v
    /\ pc' = "generate_code_challenge"
    /\ UNCHANGED <<code_challenge, authorization_url, browser, server, clock,
                   request, caller, delivered, handlerVars, envVars,
                   tokenVars, pkceVars>>

\* line 199: code_challenge = self.generate_code_challenge(code_verifier)
GenerateCodeChallenge ==
    /\ pc = "generate_code_challenge"
    /\ code_challenge' = generate_code_challenge(code_verifier)
    /\ pc' = "create_authorization_url"
    /\ UNCHANGED <<code_verifier, authorization_url, browser, server, clock,
                   request, caller, delivered, handlerVars, envVars,
                   tokenVars, pkceVars>>

\* lines 201-204: the OAuth2 client builds the URL and generates the state it
\* embeds in it; the pair (url, state) is returned
CreateAuthorizationUrl ==
    /\ pc = "create_authorization_url"
    /\ \E s \in States :
         authorization_url' = << [ code_challenge        |-> code_challenge,
                                   code_challenge_method |-> "S256",
                                   state                 |-> s ],
                                 s >>
    /\ pc' = "webbrowser_open"
    /\ UNCHANGED <<code_verifier, code_challenge, browser, server, clock,
                   request, caller, delivered, handlerVars, envVars,
                   tokenVars, pkceVars>>

\* line 206: webbrowser.open(authorization_url[0])
WebbrowserOpen ==
    /\ pc = "webbrowser_open"
    /\ browser' = Append(browser, authorization_url[1])
    /\ pc' = "HTTPServer"
    /\ UNCHANGED <<code_verifier, code_challenge, authorization_url, server,
                   clock, request, caller, delivered, handlerVars, envVars,
                   tokenVars, pkceVars>>

\* line 207: HTTPServer(("localhost", 8888), OAuthCallbackHandler) binds and
\* listens in its constructor; a port in use raises OSError out of __init__
BindServer ==
    /\ pc = "HTTPServer"
    /\ IF portFree
       THEN /\ server' = "bound"
            /\ pc' = "handle_request"
            /\ caller' = caller
       ELSE /\ server' = server
            /\ pc' = "raised"
            /\ caller' = "OSError"
    /\ UNCHANGED <<code_verifier, code_challenge, authorization_url, browser,
                   clock, request, delivered, handlerVars, envVars, tokenVars,
                   pkceVars>>

\* line 209: server.handle_request() waits in select() with the server's
\* timeout, which is None: a second passes and nothing has arrived. The
\* clock stops counting at MaxClock; the wait itself goes on.
Tick ==
    /\ pc = "handle_request"
    /\ clock < MaxClock
    /\ clock' = clock + 1
    /\ UNCHANGED <<pc, code_verifier, code_challenge, authorization_url,
                   browser, server, request, caller, delivered, handlerVars,
                   envVars, tokenVars, pkceVars>>

\* line 209: a request arrives and handle_request handles it: the server
\* calls the registered class with three arguments; what the handler
\* raises is printed by handle_error and the connection is shut down; then
\* handle_request returns and so does __init__, which has kept no reference
\* to the handler or to its token
HandleRequest ==
    /\ pc = "handle_request"
    /\ \E path \in Paths :
         LET out == IF BindArguments(HandlerParameters,
                                     RequestHandlerClassArguments) = "TypeError"
                    THEN [NoOutcome EXCEPT !.raised = "TypeError"]
                    ELSE do_GET(path, clock * TicksPerSecond)
         IN  /\ request' = <<path>>
             /\ response' = out.response
             /\ exchange' = out.exchange
             /\ token' = out.token
             /\ raised' = out.raised
             /\ stderr' = IF out.raised = "none" THEN stderr
                          ELSE Append(stderr, out.raised)
    /\ pc' = "returned"
    /\ caller' = "returned"
    /\ delivered' = <<>>
    /\ UNCHANGED <<code_verifier, code_challenge, authorization_url, browser,
                   server, clock, envVars, tokenVars, pkceVars>>

Next ==
    \/ GenerateCodeVerifier
    \/ GenerateCodeChallenge
    \/ CreateAuthorizationUrl
    \/ WebbrowserOpen
    \/ BindServer
    \/ Tick
    \/ HandleRequest

Spec == Init /\ [][Next]_vars

\* the statements of __init__ run to completion, and time passes while the
\* flow waits; nothing makes a request arrive
FairSpec ==
    /\ Spec
    /\ WF_vars(GenerateCodeVerifier) /\ WF_vars(GenerateCodeChallenge)
    /\ WF_vars(CreateAuthorizationUrl) /\ WF_vars(WebbrowserOpen)
    /\ WF_vars(BindServer) /\ WF_vars(Tick)

----------------------------------------------------------------------------
(* OAuthCallbackHandler constructed with the five arguments it declares *)

\* The handler taken on its own: an authorization URL has been opened, a
\* listener is up, and the handler is constructed the way its signature
\* asks. The names `client` and `code_verifier` that do_GET reads are
\* whatever the process has put in the module namespace: nothing (the
\* module as written), or a client and some verifier.
InitHandler ==
    /\ pc = "OAuthCallbackHandler"
    /\ code_verifier \in Verifiers
    /\ code_challenge = generate_code_challenge(code_verifier)
    /\ \E s \in States :
         authorization_url = << [ code_challenge        |-> code_challenge,
                                  code_challenge_method |-> "S256",
                                  state                 |-> s ],
                                s >>
    /\ browser = <<authorization_url[1]>>
    /\ server = "bound" /\ clock = 0 /\ request = <<>>
    /\ caller = "constructing" /\ delivered = <<>>
    /\ HandlerIdle
    /\ portFree = TRUE
    /\ endpoint \in Endpoints
    /\ g_client \in {<<>>, <<"client">>}
    /\ g_code_verifier \in {<<>>} \cup { <<v>> : v \in Verifiers }
    /\ TokenIdle /\ PkceIdle

\* OAuthCallbackHandler(client, code_verifier, request, client_address,
\* server): line 127 runs the base constructor, which reads the request and
\* calls do_GET; an exception leaves the constructor, and otherwise the
\* caller holds the handler and get_token() (lines 150-151) reads self.token
ConstructHandler ==
    /\ pc = "OAuthCallbackHandler"
    /\ \E path \in Paths :
         LET out == do_GET(path, clock * TicksPerSecond)
         IN  /\ request' = <<path>>
             /\ response' = out.response
             /\ exchange' = out.exchange
             /\ token' = out.token
             /\ raised' = out.raised
             /\ caller' = IF out.raised = "none" THEN "returned" ELSE out.raised
             /\ pc' = IF out.raised = "none" THEN "returned" ELSE "raised"
             /\ delivered' = IF out.raised = "none" THEN out.token ELSE <<>>
    /\ UNCHANGED <<code_verifier, code_challenge, authorization_url, browser,
                   server, clock, stderr, envVars, tokenVars, pkceVars>>

NextHandler == ConstructHandler

SpecHandler == InitHandler /\ [][NextHandler]_vars

----------------------------------------------------------------------------
(* Token.expired *)

\* ticks at which a token can be issued
MaxIssueTick == 3

\* the lifetimes a token is issued with, in seconds
ExpiresInValues == {1, 3600}

\* how far DateTime.now() moves between two looks at the clock: one tick,
\* or up to the second before a lifetime ends
Jumps == {1} \cup { (e - 1) * TicksPerSecond : e \in ExpiresInValues \ {1} }

\* the horizon of the clock: two seconds past the longest lifetime
Horizon(at) == at + (3600 + 2) * TicksPerSecond

InitToken ==
    /\ pc = "Token"
    /\ code_verifier = "unset" /\ code_challenge = <<>>
    /\ authorization_url = <<>> /\ browser = <<>>
    /\ server = "unbound" /\ clock = 0 /\ request = <<>>
    /\ caller = "constructing" /\ delivered = <<>>
    /\ HandlerIdle
    /\ portFree = TRUE /\ endpoint = "token"
    /\ ModuleNamespace
    /\ issuedAt \in 0..MaxIssueTick
    /\ now = issuedAt
    /\ tok = <<>> /\ observed = <<>>
    /\ PkceIdle

\* Token(**token_json) on the JSON of a token issued now
ConstructToken ==
    /\ pc = "Token"
    /\ \E e \in ExpiresInValues, ttype \in {"Bearer", "mac"}, isint \in BOOLEAN :
         LET json == TokenJson("c1", ttype, e, issuedAt)
             t    == Token([json EXCEPT !.expires_at.isint = isint])
         IN  /\ tok' = t
             /\ pc' = IF t = <<>> THEN "raised" ELSE "constructed"
    /\ UNCHANGED <<code_verifier, code_challenge, authorization_url, browser,
                   server, clock, request, caller, delivered, handlerVars,
                   envVars, issuedAt, now, observed, pkceVars>>

\* time passes
Advance ==
    /\ pc = "constructed"
    /\ \E d \in Jumps :
         /\ now + d <= Horizon(issuedAt)
         /\ now' = now + d
    /\ UNCHANGED <<flowVars, handlerVars, envVars, issuedAt, tok, observed,
                   pkceVars>>

\* the holder of the token reads token.expired
ReadExpired ==
    /\ pc = "constructed"
    /\ observed' = << [at |-> now, expired |-> Expired(tok[1], now)] >>
    /\ pc' = "read"
    /\ UNCHANGED <<code_verifier, code_challenge, authorization_url, browser,
                   server, clock, request, caller, delivered, handlerVars,
                   envVars, issuedAt, now, tok, pkceVars>>

NextToken == ConstructToken \/ Advance \/ ReadExpired

SpecToken == InitToken /\ [][NextToken]_vars

----------------------------------------------------------------------------
(* generate_code_verifier *)

\* the lengths asked for: from -NegativeLengths to MaxLength
NegativeLengths == 2
MaxLength == 2

\* the range RFC 7636 gives, which the docstring repeats
PKCE_MIN == 43
PKCE_MAX == 128

\* string.ascii_letters + string.digits
Alphabet ==
    << "a", "b", "c", "d", "e", "f", "g", "h", "i", "j", "k", "l", "m",
       "n", "o", "p", "q", "r", "s", "t", "u", "v", "w", "x", "y", "z",
       "A", "B", "C", "D", "E", "F", "G", "H", "I", "J", "K", "L", "M",
       "N", "O", "P", "Q", "R", "S", "T", "U", "V", "W", "X", "Y", "Z",
       "0", "1", "2", "3", "4", "5", "6", "7", "8", "9" >>

InitPkce ==
    /\ pc = "random.choices"
    /\ code_verifier = "unset" /\ code_challenge = <<>>
    /\ authorization_url = <<>> /\ browser = <<>>
    /\ server = "unbound" /\ clock = 0 /\ request = <<>>
    /\ caller = "constructing" /\ delivered = <<>>
    /\ HandlerIdle
    /\ portFree = TRUE /\ endpoint = "token"
    /\ ModuleNamespace
    /\ TokenIdle
    /\ length \in (0 - NegativeLengths)..MaxLength
    /\ chosen = <<>> /\ verifier = <<>>

\* random.choices(population, k=length) draws once for each of the k
\* repetitions of itertools.repeat(None, k)
Choose ==
    /\ pc = "random.choices"
    /\ Len(chosen) < length
    /\ \E i \in 1..Len(Alphabet) : chosen' = Append(chosen, Alphabet[i])
    /\ UNCHANGED <<flowVars, handlerVars, envVars, tokenVars, length, verifier>>

\* a k that is zero or negative repeats no time; "".join(...) of what was
\* drawn is returned, and nothing has looked at the value of length
Join ==
    /\ pc = "random.choices"
    /\ ~(Len(chosen) < length)
    /\ verifier' = <<chosen>>
    /\ pc' = "returned"
    /\ UNCHANGED <<code_verifier, code_challenge, authorization_url, browser,
                   server, clock, request, caller, delivered, handlerVars,
                   envVars, tokenVars, length, chosen>>

NextPkce == Choose \/ Join

SpecPkce == InitPkce /\ [][NextPkce]_vars

----------------------------------------------------------------------------
(* The properties *)

\* the one request has been handled and the call has ended
Handled == request # <<>> /\ pc \in {"returned", "raised"}

\* the query string of the handled request holds "key=..."
Carries(key) ==
    LET pairs == QueryPairs(request[1]) IN
    \E i \in 1..Len(pairs) : Len(pairs[i]) >= 2 /\ pairs[i][1] = <<key>>

\* the value of parameter `key` of a well-formed query string, <<>> if none
Param(key) ==
    LET pairs == QueryPairs(request[1]) IN
    IF DictOk(pairs) THEN ParamsGet(pairs, key) ELSE <<>>

\* C1: when the handled redirect carries a code and the token endpoint
\* accepts it, the exchange was made with that code and the code_verifier
\* generated in this flow, and the Token was delivered to the caller by the
\* time the flow has ended.
C1_CodeExchangedTokenDelivered ==
    ( /\ Handled
      /\ Param("code") # <<>> /\ Param("code") # << <<>> >>
      /\ endpoint = "token" )
    => /\ exchange = { [ code          |-> Param("code")[1],
                         code_verifier |-> code_verifier ] }
       /\ token # <<>>
       /\ delivered = token

\* C2: a handled redirect whose query string carries an error parameter ends
\* the flow in AuthorizationDeniedError for the caller, with no Token and no
\* success answer.
C2_ErrorRedirectIsDenied ==
    (Handled /\ Carries("error"))
    => /\ caller = "AuthorizationDeniedError"
       /\ token = <<>> /\ delivered = <<>>
       /\ response # <<200>>

\* C3: a handled request whose query string carries neither code nor error
\* ends in a failure the caller sees, and is not answered with the 200
\* confirmation page.
C3_MalformedRequestFails ==
    (Handled /\ ~Carries("code") /\ ~Carries("error"))
    => /\ caller \notin {"constructing", "returned"}
       /\ response # <<200>>

C5_BindBeforeBrowser ==
    /\ browser # <<>> => server = "bound"
    /\ caller = "OSError" => browser = <<>>

C7_WaitIsBounded ==
    /\ (pc = "handle_request" /\ clock >= TimeoutN)
          ~> (caller = "AuthorizationTimeoutError" \/ request # <<>>)
    /\ [](caller = "AuthorizationTimeoutError" => clock >= TimeoutN)

\* C8 as stated: the reading of Token.expired is true exactly when the time
\* of the reading is at or after expires_at.
C8_ExpiredAtOrAfterExpiry ==
    observed # <<>>
    => (observed[1].expired <=> observed[1].at >= tok[1].expires_at)

\* C8, amended: the reading of Token.expired is true exactly when the time of
\* the reading is after expires_at, and false at expires_at itself; a Token
\* issued at T with expires_in = 3600 reads false at T+3599s and true at
\* T+3601s.
C8_ExpiredStrictlyAfterExpiry ==
    observed # <<>>
    => LET r == observed[1]
           t == tok[1]
       IN  /\ r.expired <=> r.at > t.expires_at
           /\ t.expires_in = 3600
                => /\ r.at = issuedAt + 3599 * TicksPerSecond => ~r.expired
                   /\ r.at = issuedAt + 3601 * TicksPerSecond => r.expired

\* a Token with expires_in = 3600 read at the very instant expires_at
C8_ReadAtExpiry ==
    /\ observed # <<>>
    /\ observed[1].at = tok[1].expires_at
    /\ ~observed[1].expired
    /\ tok[1].expires_in = 3600

\* C9: a verifier is returned only for a length in [43, 128].
C9_LengthOutsideRangeFails ==
    verifier # <<>> => (PKCE_MIN <= length /\ length <= PKCE_MAX)

\* C10: the verifier returned for a length has exactly that many characters,
\* each of the 62-character alphabet.
C10_ExactLengthAlphanumeric ==
    verifier # <<>>
    => /\ Len(verifier[1]) = length
       /\ \A i \in 1..Len(verifier[1]) :
            \E j \in 1..Len(Alphabet) : verifier[1][i] = Alphabet[j]
       /\ Len(Alphabet) = 62

\* C11: the listener handles exactly one request and then stops, and it is
\* stopped only after a request carrying the authorization code has been
\* received and the code exchanged: IDLE -> LISTENING -> CODE_RECEIVED ->
\* TOKEN_EXCHANGED -> STOPPED, with no step skipped.
C11_StoppedOnlyAfterExchange ==
    /\ Len(request) <= 1
    /\ pc = "returned"
         => /\ request # <<>>
            /\ Param("code") # <<>> /\ Param("code") # << <<>> >>
            /\ exchange # {}

====
